---- MODULE Spec2Model ----
(***************************************************************************)
(* A model of pi-agent/generate-schemas.ts: the TypeBox schema definitions *)
(* (settings, models, auth), the normalizer toJsonSchema with its nested   *)
(* cleanSchema, the writer writeSchema and the top-level driver.           *)
(*                                                                         *)
(* JavaScript objects live in a heap (a sequence of objects, an address is *)
(* an index), so that aliasing and in-place mutation are expressible.      *)
(* Text (the result of JSON.stringify, the contents of a file) is a        *)
(* sequence of tokens.                                                     *)
(***************************************************************************)
EXTENDS Integers, Sequences, FiniteSets, TLC

VARIABLES
    heap,        \* the JavaScript heap: a sequence of objects
    pc,          \* position of the running script (or of the caller of a function)
    schema,      \* toJsonSchema's argument `schema` (a value, usually a reference)
    title,       \* toJsonSchema's argument `title`
    description, \* toJsonSchema's argument `description`
    jsonSchema,  \* the value toJsonSchema returned
    before,      \* deep-equality snapshot of `schema` taken before the call
    jobs,        \* the writeSchema(filename, toJsonSchema(...)) statements of the script
    idx,         \* the statement of `jobs` the script is at
    step,        \* the statement of writeSchema's body the script is at (0: not in it)
    dirs,        \* file system: the directories that exist
    files,       \* file system: the regular files that exist, with their contents
    out,         \* what console.log has printed in this run
    err,         \* the error the run died of ("" when none)
    run,         \* how many times the script has been started
    trace,       \* history: what this run has done so far, in order
    atStart,     \* history: the file system when this run started
    snap,        \* history: the files as the first complete run left them
    snapRun,     \* history: the run that took `snap` (0: none yet)
    entry,       \* the credential entry handed to the validator
    verdict      \* the validator's answer for `entry`

normalizerVars == <<schema, title, description, jsonSchema, before>>
fsVars == <<dirs, files>>
validatorVars == <<entry, verdict>>
vars == <<heap, pc, schema, title, description, jsonSchema, before, jobs, idx, step,
          dirs, files, out, err, run, trace, atStart, snap, snapRun, entry, verdict>>

-----------------------------------------------------------------------------
(* Bounds of the model *)

\* nesting depth of the generated Schema Definition trees below the root
MaxDepth == 3
\* how many times the script is run, one run after the other
MaxRuns == 2
\* how many tokens of a file a failing write may leave behind
MaxPartial == 1

-----------------------------------------------------------------------------
(* JavaScript values.  Every value has the same record shape; an object or *)
(* array is a tree node when written as a literal (kids = its properties)  *)
(* and a "ref" (n = address) once it lives in the heap.                    *)

Str(s) == [t |-> "str", s |-> s, n |-> 0, kids |-> <<>>]
Num(n) == [t |-> "num", s |-> "", n |-> n, kids |-> <<>>]
Bool(b) == [t |-> "bool", s |-> "", n |-> IF b THEN 1 ELSE 0, kids |-> <<>>]
Null == [t |-> "null", s |-> "", n |-> 0, kids |-> <<>>]
Undefined == [t |-> "undef", s |-> "", n |-> 0, kids |-> <<>>]
Ref(a) == [t |-> "ref", s |-> "", n |-> a, kids |-> <<>>]
Obj(kids) == [t |-> "obj", s |-> "", n |-> 0, kids |-> kids]
Arr(items) ==
    [t |-> "arr", s |-> "", n |-> 0,
     kids |-> [i \in 1..Len(items) |-> [k |-> ToString(i - 1), sym |-> FALSE, v |-> items[i]]]]

\* a property with a string key, and one with a Symbol key
Prop(k, v) == [k |-> k, sym |-> FALSE, v |-> v]
SymProp(k, v) == [k |-> k, sym |-> TRUE, v |-> v]

\* String.prototype.startsWith
StartsWith(s, prefix) == Len(s) >= Len(prefix) /\ SubSeq(s, 1, Len(prefix)) = prefix

\* JavaScript truthiness (ToBoolean)
Truthy(v) ==
    CASE v.t = "undef" -> FALSE
      [] v.t = "null" -> FALSE
      [] v.t = "bool" -> v.n = 1
      [] v.t = "num" -> v.n # 0
      [] v.t = "str" -> v.s # ""
      [] OTHER -> TRUE

-----------------------------------------------------------------------------
(* Sequences.  A sequence of sequences is flattened, and running sums are  *)
(* taken, by halving the range; both take the sequence as a tuple, its     *)
(* elements computed beforehand.                                           *)

\* a sequence given as a function, as a tuple
Tuple(f) == f \o <<>>

RECURSIVE ConcatRange(_, _, _)
ConcatRange(f, lo, hi) ==
    IF lo = hi THEN f[lo]
    ELSE ConcatRange(f, lo, (lo + hi) \div 2) \o ConcatRange(f, (lo + hi) \div 2 + 1, hi)

Flatten(ss) == IF Len(ss) = 0 THEN <<>> ELSE ConcatRange(ss, 1, Len(ss))

\* the running sums f[lo], f[lo]+f[lo+1], ... of f[lo..hi], each increased by `start`
RECURSIVE RunningSum(_, _, _, _)
RunningSum(f, lo, hi, start) ==
    IF lo > hi THEN <<>>
    ELSE IF lo = hi THEN <<start + f[lo]>>
    ELSE LET left == RunningSum(f, lo, (lo + hi) \div 2, start)
         IN left \o RunningSum(f, (lo + hi) \div 2 + 1, hi, left[Len(left)])

\* the sums ns[1] + ... + ns[j-1]
SumsBefore(ns) == [j \in 1..Len(ns) |-> RunningSum(ns, 1, Len(ns), 0)[j] - ns[j]]

-----------------------------------------------------------------------------
(* The heap.  The objects of a tree are placed level by level: the root,   *)
(* then the objects and arrays that are its members, then theirs, ...      *)

\* index of the string-keyed property k in a property list, 0 when there is none
FindKey(props, k) ==
    LET found == {i \in 1..Len(props) : ~props[i].sym /\ props[i].k = k}
    IN IF found = {} THEN 0 ELSE CHOOSE i \in found : \A j \in found : i <= j

\* obj[k]
GetProp(h, a, k) ==
    LET i == FindKey(h[a].props, k)
    IN IF i = 0 THEN Undefined ELSE h[a].props[i].v

\* obj[k] = v : an existing key keeps its place, a new key is added last
SetProp(h, a, k, v) ==
    LET i == FindKey(h[a].props, k)
    IN IF i = 0
       THEN [h EXCEPT ![a].props = Append(@, Prop(k, v))]
       ELSE [h EXCEPT ![a].props[i].v = v]

IsPrimitive(v) == v.t \notin {"obj", "arr"}

\* the members of a literal tree that are objects or arrays
Containers(tr) == SelectSeq(tr.kids, LAMBDA p : ~IsPrimitive(p.v))
ContainersUpTo(tr, i) == Len(SelectSeq(SubSeq(tr.kids, 1, i), LAMBDA p : ~IsPrimitive(p.v)))

\* the heap object of a literal tree whose members that are objects or arrays are
\* placed, in order, right after the address `last`
Node(tr, last) ==
    [arr |-> tr.t = "arr",
     props |-> Tuple([i \in 1..Len(tr.kids) |->
                        [k |-> tr.kids[i].k, sym |-> tr.kids[i].sym,
                         v |-> IF IsPrimitive(tr.kids[i].v) THEN tr.kids[i].v
                               ELSE Ref(last + ContainersUpTo(tr, i))]])]

\* how many members that are objects or arrays the trees ahead of each tree have
Ahead(trees) == SumsBefore(Tuple([j \in 1..Len(trees) |-> Len(Containers(trees[j]))]))

\* the heap objects of the trees of one level, the next level starting after `last`
Nodes(trees, last, ahead) == Tuple([j \in 1..Len(trees) |-> Node(trees[j], last + ahead[j])])

\* the trees of the next level
Below(trees) ==
    Flatten(Tuple([j \in 1..Len(trees) |->
                     Tuple([i \in 1..Len(Containers(trees[j])) |-> Containers(trees[j])[i].v])]))

\* the heap objects of the trees of one level, placed after the address n, followed by
\* those of the levels below
RECURSIVE Place(_, _)
Place(n, trees) ==
    IF Len(trees) = 0 THEN <<>>
    ELSE Nodes(trees, n + Len(trees), Ahead(trees)) \o Place(n + Len(trees), Below(trees))

\* load a literal tree into the heap: the heap after it, and the value
Alloc(h, tr) ==
    [h |-> IF IsPrimitive(tr) THEN h ELSE h \o Place(Len(h), <<tr>>),
     v |-> IF IsPrimitive(tr) THEN tr ELSE Ref(Len(h) + 1)]

\* the tree a value denotes in a heap (what a deep-equality comparison sees)
RECURSIVE DeepValue(_, _)
DeepValue(h, v) ==
    IF v.t # "ref" THEN v
    ELSE [t |-> IF h[v.n].arr THEN "arr" ELSE "obj", s |-> "", n |-> 0,
          kids |-> Tuple([i \in 1..Len(h[v.n].props) |->
                            [k |-> h[v.n].props[i].k, sym |-> h[v.n].props[i].sym,
                             v |-> DeepValue(h, h[v.n].props[i].v)]])]

-----------------------------------------------------------------------------
(* JSON text: a sequence of tokens.  "nl" is a line break followed by n    *)
(* tab characters, "sp" the blank after a colon.                           *)

Tok(c, s, n) == [c |-> c, s |-> s, n |-> n]
Punct(c) == Tok(c, "", 0)

Indent(pretty, level) == IF pretty THEN <<Tok("nl", "", level)>> ELSE <<>>

\* a serializer that leaves out the null values as well
SerializableNonNull(props) ==
    SelectSeq(props, LAMBDA p : ~p.sym /\ p.v.t \notin {"undef", "null"})

\* the properties JSON.stringify serializes: string keys whose value is not undefined
Serializable(props) == SelectSeq(props, LAMBDA p : ~p.sym /\ p.v.t # "undef")

Open(isArr) == Punct(IF isArr THEN "[" ELSE "{")
Close(isArr) == Punct(IF isArr THEN "]" ELSE "}")

\* a place in the text where an object or array, at nesting level n, is still to be
\* written
Pending(v, level) == [c |-> "value", s |-> "", n |-> level, v |-> v]

\* a value that is not an object or array, written
Primitive(v) ==
    CASE v.t = "str" -> <<Tok("str", v.s, 0)>>
      [] v.t = "num" -> <<Tok("num", "", v.n)>>
      [] v.t = "bool" -> <<Punct(IF v.n = 1 THEN "true" ELSE "false")>>
      [] v.t = "null" -> <<Punct("null")>>
      [] v.t = "undef" -> <<>>

\* the i-th member p of a container: the comma, the line break, the key, the value;
\* in an array an undefined item is written null
Member(isArr, p, i, pretty, level) ==
    (IF i > 1 THEN <<Punct(",")>> ELSE <<>>)
    \o Indent(pretty, level + 1)
    \o (IF isArr THEN <<>>
        ELSE <<Tok("str", p.k, 0), Punct(":")>> \o (IF pretty THEN <<Punct("sp")>> ELSE <<>>))
    \o (IF p.v.t = "ref" THEN <<Pending(p.v, level + 1)>>
        ELSE IF isArr /\ p.v.t = "undef" THEN <<Punct("null")>>
        ELSE Primitive(p.v))

\* an object or array with the members ps, written down to its members
Container(isArr, ps, pretty, level) ==
    IF Len(ps) = 0 THEN <<Open(isArr), Close(isArr)>>
    ELSE <<Open(isArr)>>
         \o Flatten(Tuple([i \in 1..Len(ps) |-> Member(isArr, ps[i], i, pretty, level)]))
         \o Indent(pretty, level)
         \o <<Close(isArr)>>

Written(h, x, pretty) ==
    IF x.c # "value" THEN <<x>>
    ELSE Container(h[x.v.n].arr,
                   IF h[x.v.n].arr THEN h[x.v.n].props ELSE Serializable(h[x.v.n].props),
                   pretty, x.n)

\* the text with every pending object or array written, and those inside them
RECURSIVE Expand(_, _, _)
Expand(h, text, pretty) ==
    IF \A i \in 1..Len(text) : text[i].c # "value" THEN text
    ELSE Expand(h, Flatten(Tuple([i \in 1..Len(text) |-> Written(h, text[i], pretty)])), pretty)

\* JSON.stringify(value) and JSON.stringify(value, null, "\t")
Stringify(h, v, pretty, level) ==
    IF v.t = "ref" THEN Expand(h, <<Pending(v, level)>>, pretty) ELSE Primitive(v)

IsOpen(tk) == tk.c \in {"{", "["}
IsClose(tk) == tk.c \in {"}", "]"}
IsPrimitiveToken(tk) == tk.c \in {"str", "num", "true", "false", "null"}

\* JSON.parse(text).  White space is dropped, leaving the tokens ts; level[i] is the
\* nesting level after ts[i].  A container is a span of ts from its opening bracket
\* (lo) to its closing bracket (hi), split at the commas of its own level into the
\* ranges rs, <<first, last>>, of its members.  The containers are read level by level.
ParseFail(h) == [ok |-> FALSE, h |-> h, v |-> Undefined]

Significant(text) == SelectSeq(text, LAMBDA tk : tk.c \notin {"nl", "sp"})
Levels(ts) ==
    RunningSum([i \in 1..Len(ts) |-> IF IsOpen(ts[i]) THEN 1
                                     ELSE IF IsClose(ts[i]) THEN -1 ELSE 0], 1, Len(ts), 0)

\* the positions of the commas that separate the members of the container ts[lo..hi]
Commas(ts, level, lo, hi) ==
    SelectSeq([k \in 1..(hi - lo - 1) |-> lo + k],
              LAMBDA p : ts[p].c = "," /\ level[p] = level[lo])

\* the member ranges between those commas
Between(commas, lo, hi) ==
    Tuple([k \in 1..(Len(commas) + 1) |->
             << IF k = 1 THEN lo + 1 ELSE commas[k - 1] + 1,
                IF k = Len(commas) + 1 THEN hi - 1 ELSE commas[k] - 1 >>])

Span(ts, level, lo, hi) ==
    [lo |-> lo, hi |-> hi,
     rs |-> IF hi <= lo + 1 THEN <<>> ELSE Between(Commas(ts, level, lo, hi), lo, hi)]

\* where the value of a member starts: after the key and the colon in an object
ValueStart(ts, c, r) == IF ts[c.lo].c = "[" THEN r[1] ELSE r[1] + 2

\* a value: one token, or something between an opening bracket and the last token
ValueOk(ts, lo, hi) == lo <= hi /\ (IF lo = hi THEN IsPrimitiveToken(ts[lo]) ELSE IsOpen(ts[lo]))

\* a container whose brackets match, that closes at its last token and not before,
\* and whose members are values, after a key and a colon in an object
ContainerOk(ts, level, c) ==
    /\ c.lo < c.hi
    /\ \/ ts[c.lo].c = "{" /\ ts[c.hi].c = "}"
       \/ ts[c.lo].c = "[" /\ ts[c.hi].c = "]"
    /\ \A p \in c.lo..(c.hi - 1) : level[p] >= level[c.lo]
    /\ level[c.hi] = level[c.lo] - 1
    /\ \A k \in 1..Len(c.rs) :
         /\ ts[c.lo].c = "{" =>
              /\ c.rs[k][1] + 2 <= c.rs[k][2]
              /\ ts[c.rs[k][1]].c = "str"
              /\ ts[c.rs[k][1] + 1].c = ":"
         /\ ValueOk(ts, ValueStart(ts, c, c.rs[k]), c.rs[k][2])

\* the ranges, among rs, of the members of c that are containers
InnerRanges(ts, c, rs) == SelectSeq(rs, LAMBDA r : IsOpen(ts[ValueStart(ts, c, r)]))

\* the value that starts at ts[p]; an object or array is at the address addr
ValueAt(ts, p, addr) ==
    CASE ts[p].c = "str" -> Str(ts[p].s)
      [] ts[p].c = "num" -> Num(ts[p].n)
      [] ts[p].c = "true" -> Bool(TRUE)
      [] ts[p].c = "false" -> Bool(FALSE)
      [] ts[p].c = "null" -> Null
      [] OTHER -> Ref(addr)

\* a container read: its heap object, the containers in it being placed after `last`;
\* nothing of a malformed container is read
Read(ts, level, c, last) ==
    IF ~ContainerOk(ts, level, c) THEN [ok |-> FALSE, arr |-> FALSE, props |-> <<>>]
    ELSE [ok |-> TRUE,
          arr |-> ts[c.lo].c = "[",
          props |-> Tuple([k \in 1..Len(c.rs) |->
                             Prop(IF ts[c.lo].c = "[" THEN ToString(k - 1) ELSE ts[c.rs[k][1]].s,
                                  ValueAt(ts, ValueStart(ts, c, c.rs[k]),
                                          last + Len(InnerRanges(ts, c, SubSeq(c.rs, 1, k)))))])]

\* the containers in the well-formed containers of one level
Inner(ts, level, cs) ==
    Flatten(Tuple([j \in 1..Len(cs) |->
                     IF ~ContainerOk(ts, level, cs[j]) THEN <<>>
                     ELSE Tuple([i \in 1..Len(InnerRanges(ts, cs[j], cs[j].rs)) |->
                                   Span(ts, level,
                                        ValueStart(ts, cs[j], InnerRanges(ts, cs[j], cs[j].rs)[i]),
                                        InnerRanges(ts, cs[j], cs[j].rs)[i][2])])]))

\* how many containers the containers ahead of each container have in them
InnerAhead(ts, cs) ==
    SumsBefore(Tuple([j \in 1..Len(cs) |-> Len(InnerRanges(ts, cs[j], cs[j].rs))]))

ReadAll(ts, level, cs, last, ahead) ==
    Tuple([j \in 1..Len(cs) |-> Read(ts, level, cs[j], last + ahead[j])])

\* the containers of one level read, placed after the address n, followed by those of
\* the levels below
RECURSIVE ParseLevel(_, _, _, _)
ParseLevel(ts, level, n, cs) ==
    IF Len(cs) = 0 THEN <<>>
    ELSE ReadAll(ts, level, cs, n + Len(cs), InnerAhead(ts, cs))
         \o ParseLevel(ts, level, n + Len(cs), Inner(ts, level, cs))

\* the heap with the objects read, unless one of them is malformed
Parsed(h, read) ==
    IF \E i \in 1..Len(read) : ~read[i].ok THEN ParseFail(h)
    ELSE [ok |-> TRUE,
          h |-> h \o Tuple([i \in 1..Len(read) |-> [arr |-> read[i].arr, props |-> read[i].props]]),
          v |-> Ref(Len(h) + 1)]

ParseLevels(h, ts, level) == Parsed(h, ParseLevel(ts, level, Len(h), <<Span(ts, level, 1, Len(ts))>>))

ParseSignificant(h, ts) ==
    IF Len(ts) = 0 \/ ~ValueOk(ts, 1, Len(ts)) THEN ParseFail(h)
    ELSE IF Len(ts) = 1 THEN [ok |-> TRUE, h |-> h, v |-> ValueAt(ts, 1, 0)]
    ELSE ParseLevels(h, ts, Levels(ts))

JSONparse(h, text) == ParseSignificant(h, Significant(text))

-----------------------------------------------------------------------------
(* toJsonSchema *)

Draft07 == "http://json-schema.org/draft-07/schema#"
MarkerPrefix == "[Symbol"

\* a copy of the top-level object alone, `{ ...schema }`: the nested objects are shared
ShallowClone(h, v) == [ok |-> TRUE, h |-> Append(h, h[v.n]), v |-> Ref(Len(h) + 1)]

\* JSON.parse(JSON.stringify(schema))
DeepClone(h, v) == JSONparse(h, Stringify(h, v, FALSE, 0))

\* the loop `for (const key of Object.keys(obj)) if (key.startsWith("[Symbol")) delete obj[key]`
DeleteMarkerKeys(props) ==
    SelectSeq(props, LAMBDA p : ~(~p.sym /\ StartsWith(p.k, MarkerPrefix)))

\* the values of an object that cleanSchema looks at after its deletions: those of
\* the string keys that are left (Object.values) that are objects or arrays
ObjectValues(h, a) ==
    SelectSeq(DeleteMarkerKeys(h[a].props), LAMBDA p : ~p.sym /\ p.v.t = "ref")

\* a recursion that goes into the values that are objects and skips the arrays
InSkippingArrays(h, vs) ==
    {vs[i].v.n : i \in {j \in 1..Len(vs) : ~h[vs[j].v.n].arr}}

\* the items of an array that are objects or arrays
ObjectItems(h, a) == {x \in {h[a].props[m].v : m \in 1..Len(h[a].props)} : x.t = "ref"}

\* the objects cleanSchema is called on for the values vs: the values that are objects,
\* and the items, that are objects or arrays, of the values that are arrays
In(h, vs) ==
    UNION {IF h[vs[i].v.n].arr THEN {x.n : x \in ObjectItems(h, vs[i].v.n)} ELSE {vs[i].v.n} :
           i \in 1..Len(vs)}

\* the objects the call cleanSchema(h[a]) calls cleanSchema on
Nested(h, a) == In(h, ObjectValues(h, a))

\* the objects cleanSchema is called on, from the calls on `calls` down
RECURSIVE Visited(_, _, _)
Visited(h, seen, calls) ==
    IF calls = {} THEN seen
    ELSE Visited(h, seen \cup calls, (UNION {Nested(h, a) : a \in calls}) \ (seen \cup calls))

\* cleanSchema(obj): the heap after the call
Cleaned(h, seen) ==
    Tuple([a \in 1..Len(h) |->
             IF a \in seen THEN [h[a] EXCEPT !.props = DeleteMarkerKeys(@)] ELSE h[a]])

cleanSchema(h, obj) ==
    IF obj.t # "ref" THEN h ELSE Cleaned(h, Visited(h, {}, {obj.n}))

\* `if (!jsonSchema[k]) jsonSchema[k] = fallback`
FillIfFalsy(h, a, k, fallback) ==
    IF ~Truthy(GetProp(h, a, k)) THEN SetProp(h, a, k, Str(fallback)) ELSE h

\* toJsonSchema after its first statement: c is the clone (c.h the heap that holds it,
\* c.v the reference `jsonSchema`); $schema is set, title and description are filled,
\* cleanSchema(jsonSchema) is called and jsonSchema returned
Normalized(c, ttl, desc) ==
    [h |-> cleanSchema(
             FillIfFalsy(
               FillIfFalsy(SetProp(c.h, c.v.n, "$schema", Str(Draft07)), c.v.n, "title", ttl),
               c.v.n, "description", desc),
             c.v),
     v |-> c.v]

\* a normalizer that works on the definition itself, without a copy
toJsonSchemaInPlace(h, sch, ttl, desc) == Normalized([ok |-> TRUE, h |-> h, v |-> sch], ttl, desc)

\* toJsonSchema(schema, title, description): the heap after the call and the result
toJsonSchema(h, sch, ttl, desc) == Normalized(DeepClone(h, sch), ttl, desc)

-----------------------------------------------------------------------------
(* The schema builder (Type.* of @sinclair/typebox, imported at line 15).  *)
(* A built schema is a plain object: the caller's options first, then a    *)
(* Symbol-keyed kind tag and the JSON Schema keywords of the type.         *)
(* Type.Optional adds a Symbol-keyed tag; Type.Object lists as required    *)
(* the properties that do not carry it.                                    *)

Kind(k) == SymProp("TypeBox.Kind", Str(k))
OptionalTag == SymProp("TypeBox.Optional", Str("Optional"))

Desc(text) == <<Prop("description", Str(text))>>
AdditionalProperties(b) == <<Prop("additionalProperties", Bool(b))>>
NoOptions == <<>>

TypeString(options) == Obj(options \o <<Kind("String"), Prop("type", Str("string"))>>)
TypeNumber(options) == Obj(options \o <<Kind("Number"), Prop("type", Str("number"))>>)
TypeBoolean(options) == Obj(options \o <<Kind("Boolean"), Prop("type", Str("boolean"))>>)
TypeLiteral(value) ==
    Obj(<<Kind("Literal"), Prop("const", Str(value)), Prop("type", Str("string"))>>)
TypeArray(items, options) ==
    Obj(options \o <<Kind("Array"), Prop("type", Str("array")), Prop("items", items)>>)
TypeUnion(anyOf, options) == Obj(options \o <<Kind("Union"), Prop("anyOf", Arr(anyOf))>>)
TypeOptional(sch) == Obj(sch.kids \o <<OptionalTag>>)
\* the pattern Type.Record writes for the keys Type.String()
PatternStringExact == "^(.*)$"
TypeRecord(value, options) ==
    Obj(options \o <<Kind("Record"), Prop("type", Str("object")),
                     Prop("patternProperties", Obj(<<Prop(PatternStringExact, value)>>))>>)

IsOptional(sch) == \E i \in 1..Len(sch.kids) : sch.kids[i] = OptionalTag

RequiredKeys(properties) ==
    LET req == SelectSeq(properties, LAMBDA p : ~IsOptional(p.v))
    IN [i \in 1..Len(req) |-> Str(req[i].k)]

TypeObject(properties, options) ==
    Obj(options
        \o <<Kind("Object"), Prop("type", Str("object")), Prop("properties", Obj(properties))>>
        \o (IF Len(RequiredKeys(properties)) > 0
            THEN <<Prop("required", Arr(RequiredKeys(properties)))>>
            ELSE <<>>))

-----------------------------------------------------------------------------
(* Settings schema *)

\* the compaction settings with `enabled` not wrapped in Type.Optional
CompactionEnabledRequired ==
    TypeObject(
      << Prop("enabled", TypeBoolean(Desc("Enable automatic context compaction (default: true)"))),
         Prop("reserveTokens", TypeOptional(TypeNumber(Desc("Tokens reserved for prompt + LLM response (default: 16384)")))),
         Prop("keepRecentTokens", TypeOptional(TypeNumber(Desc("Tokens to keep from recent messages (default: 20000)")))) >>,
      AdditionalProperties(FALSE))

CompactionSettingsSchema ==
    TypeObject(
      << Prop("enabled", TypeOptional(TypeBoolean(Desc("Enable automatic context compaction (default: true)")))),
         Prop("reserveTokens", TypeOptional(TypeNumber(Desc("Tokens reserved for prompt + LLM response (default: 16384)")))),
         Prop("keepRecentTokens", TypeOptional(TypeNumber(Desc("Tokens to keep from recent messages (default: 20000)")))) >>,
      AdditionalProperties(FALSE))

BranchSummarySettingsSchema ==
    TypeObject(
      << Prop("reserveTokens", TypeOptional(TypeNumber(Desc("Tokens reserved for prompt + LLM response (default: 16384)")))) >>,
      AdditionalProperties(FALSE))

RetrySettingsSchema ==
    TypeObject(
      << Prop("enabled", TypeOptional(TypeBoolean(Desc("Enable automatic retries on transient errors (default: true)")))),
         Prop("maxRetries", TypeOptional(TypeNumber(Desc("Maximum retry attempts (default: 3)")))),
         Prop("baseDelayMs", TypeOptional(TypeNumber(Desc("Base delay for exponential backoff in ms (default: 2000)")))) >>,
      AdditionalProperties(FALSE))

TerminalSettingsSchema ==
    TypeObject(
      << Prop("showImages", TypeOptional(TypeBoolean(Desc("Show images in terminal if supported (default: true)")))) >>,
      AdditionalProperties(FALSE))

ImageSettingsSchema ==
    TypeObject(
      << Prop("autoResize", TypeOptional(TypeBoolean(Desc("Resize images to 2000x2000 max for better model compatibility (default: true)")))),
         Prop("blockImages", TypeOptional(TypeBoolean(Desc("Prevent all images from being sent to LLM providers (default: false)")))) >>,
      AdditionalProperties(FALSE))

ThinkingBudgetsSettingsSchema ==
    TypeObject(
      << Prop("minimal", TypeOptional(TypeNumber(Desc("Token budget for minimal thinking level")))),
         Prop("low", TypeOptional(TypeNumber(Desc("Token budget for low thinking level")))),
         Prop("medium", TypeOptional(TypeNumber(Desc("Token budget for medium thinking level")))),
         Prop("high", TypeOptional(TypeNumber(Desc("Token budget for high thinking level")))) >>,
      AdditionalProperties(FALSE))

MarkdownSettingsSchema ==
    TypeObject(
      << Prop("codeBlockIndent", TypeOptional(TypeString(Desc("Indentation for code blocks (default: \"  \")")))) >>,
      AdditionalProperties(FALSE))

PackageSourceObjectSchema ==
    TypeObject(
      << Prop("source", TypeString(Desc("npm package name or git URL"))),
         Prop("extensions", TypeOptional(TypeArray(TypeString(NoOptions), Desc("Filter to specific extensions")))),
         Prop("skills", TypeOptional(TypeArray(TypeString(NoOptions), Desc("Filter to specific skills")))),
         Prop("prompts", TypeOptional(TypeArray(TypeString(NoOptions), Desc("Filter to specific prompt templates")))),
         Prop("themes", TypeOptional(TypeArray(TypeString(NoOptions), Desc("Filter to specific themes")))) >>,
      AdditionalProperties(FALSE))

PackageSourceSchema ==
    TypeUnion(<< TypeString(Desc("npm package name or git URL (loads all resources)")),
                 PackageSourceObjectSchema >>,
              NoOptions)

SettingsId == "https://buildwithpi.ai/schemas/settings.schema.json"

SettingsOptions ==
    << Prop("$id", Str(SettingsId)),
       Prop("title", Str("Pi Coding Agent Settings")),
       Prop("description", Str("Configuration file for pi coding agent (~/.pi/agent/settings.json or .pi/settings.json)")),
       Prop("additionalProperties", Bool(FALSE)) >>

SettingsProperties ==
    << Prop("$schema", TypeOptional(TypeString(Desc("JSON Schema reference")))),
       Prop("lastChangelogVersion", TypeOptional(TypeString(Desc("Last seen changelog version (internal use)")))),
       Prop("defaultProvider", TypeOptional(TypeString(Desc("Default LLM provider (e.g., 'anthropic', 'openai')")))),
       Prop("defaultModel", TypeOptional(TypeString(Desc("Default model ID (e.g., 'claude-sonnet-4-20250514')")))),
       Prop("defaultThinkingLevel", TypeOptional(
           TypeUnion(<< TypeLiteral("off"), TypeLiteral("minimal"), TypeLiteral("low"),
                        TypeLiteral("medium"), TypeLiteral("high"), TypeLiteral("xhigh") >>,
                     Desc("Default thinking/reasoning level for models that support it")))),
       Prop("steeringMode", TypeOptional(
           TypeUnion(<< TypeLiteral("all"), TypeLiteral("one-at-a-time") >>,
                     Desc("How to handle multiple steering messages (default: 'one-at-a-time')")))),
       Prop("followUpMode", TypeOptional(
           TypeUnion(<< TypeLiteral("all"), TypeLiteral("one-at-a-time") >>,
                     Desc("How to handle multiple follow-up messages (default: 'one-at-a-time')")))),
       Prop("theme", TypeOptional(TypeString(Desc("Theme name (e.g., 'dark', 'light', 'solarized')")))),
       Prop("compaction", TypeOptional(CompactionSettingsSchema)),
       Prop("branchSummary", TypeOptional(BranchSummarySettingsSchema)),
       Prop("retry", TypeOptional(RetrySettingsSchema)),
       Prop("hideThinkingBlock", TypeOptional(TypeBoolean(Desc("Hide the thinking/reasoning block in output (default: false)")))),
       Prop("shellPath", TypeOptional(TypeString(Desc("Custom shell path (e.g., for Cygwin users on Windows)")))),
       Prop("quietStartup", TypeOptional(TypeBoolean(Desc("Suppress startup messages (default: false)")))),
       Prop("shellCommandPrefix", TypeOptional(TypeString(Desc("Prefix prepended to every bash command (e.g., \"shopt -s expand_aliases\" for alias support)")))),
       Prop("collapseChangelog", TypeOptional(TypeBoolean(Desc("Show condensed changelog after update (default: false)")))),
       Prop("packages", TypeOptional(TypeArray(PackageSourceSchema, Desc("npm/git packages to load extensions, skills, prompts, themes from")))),
       Prop("extensions", TypeOptional(TypeArray(TypeString(NoOptions), Desc("Local extension file paths or directories")))),
       Prop("skills", TypeOptional(TypeArray(TypeString(NoOptions), Desc("Local skill file paths or directories")))),
       Prop("prompts", TypeOptional(TypeArray(TypeString(NoOptions), Desc("Local prompt template paths or directories")))),
       Prop("themes", TypeOptional(TypeArray(TypeString(NoOptions), Desc("Local theme file paths or directories")))),
       Prop("enableSkillCommands", TypeOptional(TypeBoolean(Desc("Register skills as /skill:name commands (default: true)")))),
       Prop("terminal", TypeOptional(TerminalSettingsSchema)),
       Prop("images", TypeOptional(ImageSettingsSchema)),
       Prop("enabledModels", TypeOptional(TypeArray(TypeString(NoOptions), Desc("Model patterns for cycling (same format as --models CLI flag)")))),
       Prop("doubleEscapeAction", TypeOptional(
           TypeUnion(<< TypeLiteral("fork"), TypeLiteral("tree") >>,
                     Desc("Action for double-escape with empty editor (default: \"tree\")")))),
       Prop("thinkingBudgets", TypeOptional(ThinkingBudgetsSettingsSchema)),
       Prop("editorPaddingX", TypeOptional(
           TypeNumber(<< Prop("minimum", Num(0)), Prop("maximum", Num(3)),
                         Prop("description", Str("Horizontal padding for input editor (default: 0)")) >>))),
       Prop("showHardwareCursor", TypeOptional(TypeBoolean(Desc("Show terminal cursor while still positioning it for IME (default: false)")))),
       Prop("markdown", TypeOptional(MarkdownSettingsSchema)) >>

SettingsSchema == TypeObject(SettingsProperties, SettingsOptions)

-----------------------------------------------------------------------------
(* Models schema *)

OpenRouterRoutingSchema ==
    TypeObject(
      << Prop("only", TypeOptional(TypeArray(TypeString(NoOptions), Desc("Only use these providers")))),
         Prop("order", TypeOptional(TypeArray(TypeString(NoOptions), Desc("Prefer providers in this order")))) >>,
      AdditionalProperties(FALSE))

OpenAICompletionsCompatSchema ==
    TypeObject(
      << Prop("supportsStore", TypeOptional(TypeBoolean(Desc("Supports store parameter")))),
         Prop("supportsDeveloperRole", TypeOptional(TypeBoolean(Desc("Supports developer role messages")))),
         Prop("supportsReasoningEffort", TypeOptional(TypeBoolean(Desc("Supports reasoning_effort parameter")))),
         Prop("supportsUsageInStreaming", TypeOptional(TypeBoolean(Desc("Reports usage in streaming responses")))),
         Prop("maxTokensField", TypeOptional(
             TypeUnion(<< TypeLiteral("max_completion_tokens"), TypeLiteral("max_tokens") >>,
                       Desc("Which field to use for max tokens")))),
         Prop("requiresToolResultName", TypeOptional(TypeBoolean(Desc("Requires name field in tool results")))),
         Prop("requiresAssistantAfterToolResult", TypeOptional(TypeBoolean(Desc("Requires assistant message after tool result")))),
         Prop("requiresThinkingAsText", TypeOptional(TypeBoolean(Desc("Requires thinking content as text")))),
         Prop("requiresMistralToolIds", TypeOptional(TypeBoolean(Desc("Requires Mistral-style tool IDs")))),
         Prop("thinkingFormat", TypeOptional(
             TypeUnion(<< TypeLiteral("openai"), TypeLiteral("zai") >>, Desc("Thinking block format")))),
         Prop("openRouterRouting", TypeOptional(OpenRouterRoutingSchema)) >>,
      AdditionalProperties(FALSE))

OpenAIResponsesCompatSchema ==
    TypeObject(<<>>, << Prop("additionalProperties", Bool(FALSE)),
                        Prop("description", Str("Reserved for future use")) >>)

OpenAICompatSchema ==
    TypeUnion(<< OpenAICompletionsCompatSchema, OpenAIResponsesCompatSchema >>,
              Desc("OpenAI API compatibility settings"))

ModelCostSchema ==
    TypeObject(
      << Prop("input", TypeNumber(Desc("Cost per million input tokens in USD"))),
         Prop("output", TypeNumber(Desc("Cost per million output tokens in USD"))),
         Prop("cacheRead", TypeNumber(Desc("Cost per million cached input tokens in USD"))),
         Prop("cacheWrite", TypeNumber(Desc("Cost per million cache write tokens in USD"))) >>,
      AdditionalProperties(FALSE))

MinLength1(text) == << Prop("minLength", Num(1)), Prop("description", Str(text)) >>
Minimum1(text) == << Prop("minimum", Num(1)), Prop("description", Str(text)) >>

ModelDefinitionSchema ==
    TypeObject(
      << Prop("id", TypeString(MinLength1("Model ID (e.g., 'gpt-4o')"))),
         Prop("name", TypeString(MinLength1("Display name (e.g., 'GPT-4o')"))),
         Prop("api", TypeOptional(TypeString(MinLength1("API type (overrides provider-level api). E.g., 'openai-chat-stream', 'anthropic-stream'")))),
         Prop("reasoning", TypeBoolean(Desc("Whether the model supports extended thinking/reasoning"))),
         Prop("input", TypeArray(TypeUnion(<< TypeLiteral("text"), TypeLiteral("image") >>, NoOptions),
                                 Desc("Supported input modalities"))),
         Prop("cost", ModelCostSchema),
         Prop("contextWindow", TypeNumber(Minimum1("Maximum context window size in tokens"))),
         Prop("maxTokens", TypeNumber(Minimum1("Maximum output tokens"))),
         Prop("headers", TypeOptional(TypeRecord(TypeString(NoOptions), Desc("Custom headers for this model (overrides provider headers)")))),
         Prop("compat", TypeOptional(OpenAICompatSchema)) >>,
      AdditionalProperties(FALSE))

ProviderConfigSchema ==
    TypeObject(
      << Prop("baseUrl", TypeOptional(TypeString(MinLength1("Base URL for API requests")))),
         Prop("apiKey", TypeOptional(TypeString(MinLength1("API key, env var name, or shell command (prefix with !). E.g., 'OPENAI_API_KEY' or '!op read ...'")))),
         Prop("api", TypeOptional(TypeString(MinLength1("Default API type for all models. E.g., 'openai-chat-stream', 'anthropic-stream'")))),
         Prop("headers", TypeOptional(TypeRecord(TypeString(NoOptions), Desc("Custom headers for all models. Values can be env var names or shell commands (prefix with !)")))),
         Prop("authHeader", TypeOptional(TypeBoolean(Desc("Add Authorization: Bearer header with resolved apiKey (default: false)")))),
         Prop("models", TypeOptional(TypeArray(ModelDefinitionSchema, Desc("Custom model definitions")))) >>,
      AdditionalProperties(FALSE))

\* the options of the models schema without `additionalProperties: false`
ModelsOptionsOpen ==
    << Prop("$id", Str("https://buildwithpi.ai/schemas/models.schema.json")),
       Prop("title", Str("Pi Coding Agent Models Configuration")),
       Prop("description", Str("Custom models and provider configuration (~/.pi/agent/models.json)")) >>

ModelsOptions ==
    << Prop("$id", Str("https://buildwithpi.ai/schemas/models.schema.json")),
       Prop("title", Str("Pi Coding Agent Models Configuration")),
       Prop("description", Str("Custom models and provider configuration (~/.pi/agent/models.json)")),
       Prop("additionalProperties", Bool(FALSE)) >>

ModelsConfigSchema ==
    TypeObject(
      << Prop("$schema", TypeOptional(TypeString(Desc("JSON Schema reference")))),
         Prop("providers", TypeRecord(ProviderConfigSchema, Desc("Provider configurations keyed by provider name"))) >>,
      ModelsOptions)

-----------------------------------------------------------------------------
(* Auth schema *)

\* an API-key credential whose key may be left out
ApiKeyCredentialKeyOptional ==
    TypeObject(
      << Prop("type", TypeLiteral("api_key")),
         Prop("key", TypeOptional(TypeString(Desc("The API key value")))) >>,
      AdditionalProperties(FALSE))

ApiKeyCredentialSchema ==
    TypeObject(
      << Prop("type", TypeLiteral("api_key")),
         Prop("key", TypeString(Desc("The API key value"))) >>,
      AdditionalProperties(FALSE))

OAuthCredentialSchema ==
    TypeObject(
      << Prop("type", TypeLiteral("oauth")),
         Prop("access", TypeString(Desc("OAuth access token"))),
         Prop("refresh", TypeString(Desc("OAuth refresh token"))),
         Prop("expires", TypeNumber(Desc("Token expiration timestamp (ms since epoch)"))),
         Prop("accountId", TypeOptional(TypeString(Desc("Account ID (provider-specific)")))) >>,
      << Prop("additionalProperties", Bool(TRUE)),
         Prop("description", Str("OAuth credentials (may include provider-specific fields)")) >>)

AuthCredentialSchema ==
    TypeUnion(<< ApiKeyCredentialSchema, OAuthCredentialSchema >>,
              Desc("Credential entry (API key or OAuth tokens)"))

AuthOptions ==
    << Prop("$id", Str("https://buildwithpi.ai/schemas/auth.schema.json")),
       Prop("title", Str("Pi Coding Agent Auth Storage")),
       Prop("description", Str("Credential storage for API keys and OAuth tokens (~/.pi/agent/auth.json)")) >>

AuthStorageSchema == TypeRecord(AuthCredentialSchema, AuthOptions)

-----------------------------------------------------------------------------
(* Schema Definition trees for the normalizer: a root object that may set  *)
(* title and description, may carry a marker key, and has one subtree of   *)
(* nested objects and arrays, each object with or without a marker key     *)
(* (a string key "[Symbol(...)]", or a real Symbol key).                   *)

StringMarker == Prop("[Symbol(TypeBox.Kind)]", Str("Object"))
SymbolMarker == SymProp("TypeBox.Kind", Str("Object"))
Markers == {<<>>, <<StringMarker>>, <<SymbolMarker>>}

Leaves == {Str("string"), Undefined, Null}

RECURSIVE Gen(_)
Gen(d) ==
    IF d = 0 THEN Leaves
    ELSE LET sub == Gen(d - 1)
         IN Leaves
            \cup {Obj(m \o <<Prop("type", Str("object")), Prop("properties", c)>>) :
                    m \in Markers, c \in sub}
            \cup {Arr(<<c>>) : c \in sub}

OwnTitles == {<<>>, <<Prop("title", Str(""))>>, <<Prop("title", Str("Own title"))>>}
OwnDescriptions ==
    {<<>>, <<Prop("description", Str(""))>>, <<Prop("description", Str("Own description"))>>}

InputTrees ==
    {Obj(m \o t \o d \o <<Prop("anyOf", c)>>) :
        m \in Markers, t \in OwnTitles, d \in OwnDescriptions, c \in Gen(MaxDepth)}

-----------------------------------------------------------------------------
(* File system.  A path is the sequence of its components below the parent *)
(* of the script's directory, which exists.                                *)

\* join(__dirname, "../schemas/pi-agent")
schemasDir == <<"schemas", "pi-agent">>

\* path.join
join(dir, filename) == dir \o filename

Parent(path) == SubSeq(path, 1, Len(path) - 1)
Prefixes(path) == {SubSeq(path, 1, k) : k \in 0..Len(path)}

\* mkdirSync(path): the directory alone
mkdirSyncNotRecursive(ds, path) == ds \cup {path}

\* mkdirSync(path, { recursive: true }): the directory and every missing parent
mkdirSync(ds, path) == ds \cup Prefixes(path)

\* a file written in append mode
AppendData(old, data) == old \o data

\* writeFileSync(path, data) replaces what the file held
Overwrite(old, data) == data

Content(fs, path) == IF path \in DOMAIN fs THEN fs[path] ELSE <<>>
Put(fs, path, data) == [q \in DOMAIN fs \cup {path} |-> IF q = path THEN data ELSE fs[q]]

\* JSON.stringify(schema, null, "\t") + "\n"
Serialize(h, v) == Stringify(h, v, TRUE, 0) \o <<Tok("nl", "", 0)>>

-----------------------------------------------------------------------------
(* The script *)

\* the module-level constants, as the heap holds them when the script starts
Loaded ==
    LET a == Alloc(<<>>, SettingsSchema)
        b == Alloc(a.h, ModelsConfigSchema)
        c == Alloc(b.h, AuthStorageSchema)
    IN [h |-> c.h,
        defs |-> [SettingsSchema |-> a.v, ModelsConfigSchema |-> b.v, AuthStorageSchema |-> c.v]]

DefinitionOf(name) == Loaded.defs[name]

Job(filename, def, ttl, desc) ==
    [filename |-> filename, def |-> def, title |-> ttl, description |-> desc]

\* the three writeSchema statements of the script
MainJobs ==
    << Job(<<"settings.schema.json">>, "SettingsSchema",
           "Pi Coding Agent Settings", "Configuration file for pi coding agent"),
       Job(<<"models.schema.json">>, "ModelsConfigSchema",
           "Pi Coding Agent Models Configuration", "Custom models and provider configuration"),
       Job(<<"auth.schema.json">>, "AuthStorageSchema",
           "Pi Coding Agent Auth Storage", "Credential storage for API keys and OAuth tokens") >>

\* the last four console.log statements
Epilogue ==
    << "\nDone! Add $schema to your config files for IDE validation:",
       "  settings.json: \"$schema\": \"./schemas/settings.schema.json\"",
       "  models.json:   \"$schema\": \"./schemas/models.schema.json\"",
       "  auth.json:     \"$schema\": \"./schemas/auth.schema.json\"" >>

\* writeSchema's body with its two statements exchanged
writeSchemaLogFirst == <<"log", "write">>

\* writeSchema's body: writeFileSync, then console.log
writeSchemaBody == <<"write", "log">>

\* an error that is caught and the statement tried again
RetryOnThrow(at) == at

\* nothing catches an exception: the process dies where it was thrown
OnThrow(at) == "aborted"

Ev(op, i) == [op |-> op, i |-> i]
Path == join(schemasDir, jobs[idx].filename)

\* a statement of writeSchema's body is done: go to the next one, or return to the
\* script, which goes to its next writeSchema statement or to the epilogue
StepDone ==
    IF step < Len(writeSchemaBody)
    THEN /\ pc' = writeSchemaBody[step + 1]
         /\ step' = step + 1
         /\ idx' = idx
    ELSE /\ pc' = IF idx = Len(jobs) THEN "finish" ELSE "normalize"
         /\ step' = 0
         /\ idx' = idx + 1

\* mkdirSync(schemasDir, { recursive: true }) returns
MkdirOk ==
    /\ pc = "mkdir"
    /\ \A q \in Prefixes(schemasDir) : q \notin DOMAIN files
    /\ dirs' = mkdirSync(dirs, schemasDir)
    /\ pc' = "normalize"
    /\ trace' = Append(trace, Ev("mkdir", 0))
    /\ UNCHANGED <<heap, normalizerVars, jobs, idx, step, files, out, err, run, atStart,
                   snap, snapRun, validatorVars>>

\* mkdirSync throws: a component of the path is a regular file, or the system refuses
\* (permissions, a full disk) after having made some of the missing directories
MkdirThrow ==
    /\ pc = "mkdir"
    /\ \/ /\ \E q \in Prefixes(schemasDir) : q \in DOMAIN files
          /\ err' = "ENOTDIR"
          /\ dirs' = dirs
       \/ /\ \A q \in Prefixes(schemasDir) : q \notin DOMAIN files
          /\ schemasDir \notin dirs
          /\ err' = "EACCES"
          /\ \E k \in 0..(Len(schemasDir) - 1) :
               /\ dirs' = mkdirSync(dirs, SubSeq(schemasDir, 1, k))
               /\ dirs' # mkdirSync(dirs, schemasDir)
    /\ pc' = OnThrow("mkdir")
    /\ trace' = Append(trace, Ev("mkdir-failed", 0))
    /\ UNCHANGED <<heap, normalizerVars, jobs, idx, step, files, out, run, atStart,
                   snap, snapRun, validatorVars>>

\* the argument of a writeSchema statement is evaluated: toJsonSchema(...)
Normalize ==
    /\ pc = "normalize"
    /\ schema' = DefinitionOf(jobs[idx].def)
    /\ title' = jobs[idx].title
    /\ description' = jobs[idx].description
    /\ \E r \in {toJsonSchema(heap, schema', title', description')} :
         /\ heap' = r.h
         /\ jsonSchema' = r.v
    /\ pc' = writeSchemaBody[1]
    /\ step' = 1
    /\ trace' = Append(trace, Ev("normalize", idx))
    /\ UNCHANGED <<before, jobs, idx, fsVars, out, err, run, atStart, snap, snapRun,
                   validatorVars>>

\* writeFileSync(path, ...) returns
WriteOk ==
    /\ pc = "write"
    /\ Parent(Path) \in dirs
    /\ Path \notin dirs
    /\ files' = Put(files, Path, Overwrite(Content(files, Path), Serialize(heap, jsonSchema)))
    /\ trace' = Append(trace, Ev("write", idx))
    /\ StepDone
    /\ UNCHANGED <<heap, normalizerVars, jobs, dirs, out, err, run, atStart, snap, snapRun,
                   validatorVars>>

\* writeFileSync throws: the directory of the path is missing, the path is a directory,
\* or the system refuses, leaving the file as it was or with the first tokens only
WriteThrow ==
    /\ pc = "write"
    /\ \/ /\ Parent(Path) \notin dirs
          /\ err' = "ENOENT"
          /\ files' = files
       \/ /\ Parent(Path) \in dirs
          /\ Path \in dirs
          /\ err' = "EISDIR"
          /\ files' = files
       \/ /\ Parent(Path) \in dirs
          /\ Path \notin dirs
          /\ err' = "EACCES"
          /\ files' = files
       \/ /\ Parent(Path) \in dirs
          /\ Path \notin dirs
          /\ err' = "ENOSPC"
          /\ \E data \in {Serialize(heap, jsonSchema)} :
               \E k \in 0..MaxPartial : files' = Put(files, Path, SubSeq(data, 1, k))
    /\ pc' = OnThrow("write")
    /\ trace' = Append(trace, Ev("write-failed", idx))
    /\ UNCHANGED <<heap, normalizerVars, jobs, idx, step, dirs, out, run, atStart,
                   snap, snapRun, validatorVars>>

\* console.log(`Generated: ${path}`)
Log ==
    /\ pc = "log"
    /\ out' = Append(out, [text |-> "Generated: ", path |-> Path])
    /\ trace' = Append(trace, Ev("log", idx))
    /\ StepDone
    /\ UNCHANGED <<heap, normalizerVars, jobs, fsVars, err, run, atStart, snap, snapRun,
                   validatorVars>>

\* the epilogue is printed and the script ends
Finish ==
    /\ pc = "finish"
    /\ out' = out \o [i \in 1..Len(Epilogue) |-> [text |-> Epilogue[i], path |-> <<>>]]
    /\ pc' = "exited"
    /\ trace' = Append(trace, Ev("exit", 0))
    /\ snap' = IF snapRun = 0 THEN files ELSE snap
    /\ snapRun' = IF snapRun = 0 THEN run ELSE snapRun
    /\ UNCHANGED <<heap, normalizerVars, jobs, idx, step, fsVars, err, run, atStart,
                   validatorVars>>

\* the operator runs the script again: a new process, the file system as it was left
Rerun ==
    /\ pc \in {"exited", "aborted"}
    /\ run < MaxRuns
    /\ run' = run + 1
    /\ heap' = Loaded.h
    /\ pc' = "mkdir"
    /\ idx' = 1
    /\ step' = 0
    /\ out' = <<>>
    /\ err' = ""
    /\ trace' = <<>>
    /\ atStart' = [dirs |-> dirs, files |-> files]
    /\ jsonSchema' = Undefined
    /\ schema' = Undefined
    /\ title' = ""
    /\ description' = ""
    /\ UNCHANGED <<before, jobs, fsVars, snap, snapRun, validatorVars>>

Next == MkdirOk \/ MkdirThrow \/ Normalize \/ WriteOk \/ WriteThrow \/ Log \/ Finish \/ Rerun

\* a file some earlier tool left behind
Stale == <<Tok("str", "stale", 0)>>

\* the file systems the script may find: the output directory missing with or without
\* its parent, or present and empty, or with a stale last file, or with the three
\* files stale; or a regular file where the parent directory should be
InitialFileSystems ==
    {[dirs |-> {<<>>}, files |-> <<>>],
     [dirs |-> {<<>>, <<"schemas">>}, files |-> <<>>],
     [dirs |-> {<<>>}, files |-> Put(<<>>, <<"schemas">>, Stale)]}
    \cup {[dirs |-> Prefixes(schemasDir),
           files |-> [q \in {join(schemasDir, MainJobs[i].filename) : i \in present} |-> Stale]] :
            present \in {{}, {Len(MainJobs)}, 1..Len(MainJobs)}}

StartOn(fs, js) ==
    /\ jobs = js
    /\ dirs = fs.dirs
    /\ files = fs.files
    /\ atStart = fs
    /\ snap = fs.files
    /\ snapRun = 0
    /\ heap = Loaded.h
    /\ pc = "mkdir"
    /\ idx = 1
    /\ step = 0
    /\ out = <<>>
    /\ err = ""
    /\ run = 1
    /\ trace = <<>>
    /\ schema = Undefined
    /\ title = ""
    /\ description = ""
    /\ jsonSchema = Undefined
    /\ before = Undefined
    /\ entry = Undefined
    /\ verdict = FALSE

Init == \E fs \in InitialFileSystems : StartOn(fs, MainJobs)

Spec == Init /\ [][Next]_vars

-----------------------------------------------------------------------------
(* writeSchema called with other file names: the script with one or two    *)
(* writeSchema statements whose file name may have directories in it       *)

WriterFileNames ==
    {<<"auth.schema.json">>, <<"nested", "auth.schema.json">>,
     <<"deeply", "nested", "auth.schema.json">>}

WriterJobs ==
    LET job(f) == Job(f, "AuthStorageSchema", "Pi Coding Agent Auth Storage",
                      "Credential storage for API keys and OAuth tokens")
    IN {<<job(f)>> : f \in WriterFileNames}
       \cup {<<job(f), job(g)>> : f, g \in WriterFileNames}

\* the file systems of the script, and one where a directory below the output
\* directory exists already
WriterFileSystems ==
    InitialFileSystems
    \cup {[dirs |-> Prefixes(schemasDir \o <<"nested">>), files |-> <<>>]}

InitWriter == \E fs \in WriterFileSystems : \E js \in WriterJobs : StartOn(fs, js)

SpecWriter == InitWriter /\ [][Next]_vars

-----------------------------------------------------------------------------
(* The normalizer called on its own *)

InitNormalizer ==
    /\ \E tr \in InputTrees :
         /\ heap = Alloc(<<>>, tr).h
         /\ before = tr
    /\ schema = Ref(1)
    /\ title = "Fallback title"
    /\ description = "Fallback description"
    /\ jsonSchema = Undefined
    /\ pc = "call"
    /\ jobs = <<>>
    /\ idx = 0
    /\ step = 0
    /\ dirs = {<<>>}
    /\ files = <<>>
    /\ out = <<>>
    /\ err = ""
    /\ run = 0
    /\ trace = <<>>
    /\ atStart = [dirs |-> {<<>>}, files |-> <<>>]
    /\ snap = <<>>
    /\ snapRun = 0
    /\ entry = Undefined
    /\ verdict = FALSE

CallToJsonSchema ==
    /\ pc = "call"
    /\ \E r \in {toJsonSchema(heap, schema, title, description)} :
         /\ heap' = r.h
         /\ jsonSchema' = r.v
    /\ pc' = "returned"
    /\ UNCHANGED <<schema, title, description, before, jobs, idx, step, fsVars, out, err,
                   run, trace, atStart, snap, snapRun, validatorVars>>

NextNormalizer == CallToJsonSchema

SpecNormalizer == InitNormalizer /\ [][NextNormalizer]_vars

-----------------------------------------------------------------------------
(* Trees: the helpers the properties are stated with *)

\* tree[k] for a string key k
TreeGet(tr, k) ==
    IF IsPrimitive(tr) \/ FindKey(tr.kids, k) = 0 THEN Undefined
    ELSE tr.kids[FindKey(tr.kids, k)].v

HasKey(tr, k) == ~IsPrimitive(tr) /\ FindKey(tr.kids, k) # 0

\* the value at a path (a sequence of string keys and array indexes)
RECURSIVE TreeAt(_, _)
TreeAt(tr, path) ==
    IF path = <<>> THEN tr ELSE TreeAt(TreeGet(tr, Head(path)), Tail(path))

HasMarkerKey(tr) ==
    \E i \in 1..Len(tr.kids) : ~tr.kids[i].sym /\ StartsWith(tr.kids[i].k, "[Symbol")

\* the paths of the objects and arrays of a tree that have a marker key
RECURSIVE MarkerPaths(_)
MarkerPaths(tr) ==
    IF IsPrimitive(tr) THEN {}
    ELSE (IF HasMarkerKey(tr) THEN {<<>>} ELSE {})
         \cup UNION {{<<tr.kids[i].k>> \o p : p \in MarkerPaths(tr.kids[i].v)} :
                       i \in {j \in 1..Len(tr.kids) : ~tr.kids[j].sym}}

\* the document toJsonSchema returned
Returned == DeepValue(heap, jsonSchema)

-----------------------------------------------------------------------------
(* Properties of toJsonSchema *)

\* C1 (Purity): when toJsonSchema has returned, its input tree is deep-equal to the
\* snapshot taken before the call, whatever the call deleted from or assigned to its copy.
C1_Purity == pc = "returned" => DeepValue(heap, schema) = before

\* C1's case: the input has no title, a marker key at its root and one in an object
\* inside an array, so that the call has assigned and deleted; the result differs from
\* the input
C1_Witness ==
    /\ pc = "returned"
    /\ ~HasKey(before, "title")
    /\ {<<>>, <<"anyOf", "0">>} \subseteq MarkerPaths(before)
    /\ TreeGet(Returned, "title") = Str(title)
    /\ MarkerPaths(Returned) = {}

\* C2 (Stripping): the document toJsonSchema returned has no key that starts with
\* "[Symbol", at any depth; wherever the input had such a key (at the root, in a nested
\* object, in an object inside an array), the document has the object, without the key.
C2_Stripping ==
    pc = "returned" =>
        /\ MarkerPaths(Returned) = {}
        /\ \A p \in MarkerPaths(before) :
             /\ ~IsPrimitive(TreeAt(Returned, p))
             /\ ~HasMarkerKey(TreeAt(Returned, p))

\* C2's case: marker keys at the root, in an object inside an array and in an object
\* nested in that one
C2_Witness ==
    /\ pc = "returned"
    /\ {<<>>, <<"anyOf", "0">>, <<"anyOf", "0", "properties">>} \subseteq MarkerPaths(before)
    /\ TreeAt(Returned, <<"anyOf", "0", "properties">>).t = "obj"

\* C3 (Fallback fill): for title and for description, each on its own: when the input's
\* root does not set the field the output carries the fallback, and when the input's
\* root sets it, whatever the value, the output carries that value.
C3_FallbackFill ==
    pc = "returned" =>
        /\ TreeGet(Returned, "title") =
             IF HasKey(before, "title") THEN TreeGet(before, "title") ELSE Str(title)
        /\ TreeGet(Returned, "description") =
             IF HasKey(before, "description") THEN TreeGet(before, "description")
             ELSE Str(description)

-----------------------------------------------------------------------------
(* Properties of writeSchema and of the script *)

JobPath(i) == join(schemasDir, jobs[i].filename)

\* the steps of this run that are of kind op: the statements they belong to
Done(op) == {trace[k].i : k \in {j \in 1..Len(trace) : trace[j].op = op}}

Failures == {k \in 1..Len(trace) : trace[k].op \in {"mkdir-failed", "write-failed"}}

\* C4 as stated (Directory creation by the Writer): whatever the destination file name,
\* the directory of the destination exists when the file is about to be written, and no
\* write fails for a missing directory.
C4_WriterCreatesParents ==
    /\ pc = "write" => Parent(Path) \in dirs
    /\ err # "ENOENT"

\* C4 amended (Directory creation by the script): the only directories a run makes are
\* the output directory and its missing parents, and they exist before the first
\* writeSchema statement starts; writeSchema makes none.  A file name directly in the
\* output directory is never refused for a missing directory; a file name whose
\* directory is missing cannot be written, and is what ENOENT means.
C4_DriverCreatesOutputDir ==
    /\ dirs \subseteq mkdirSync(atStart.dirs, schemasDir)
    /\ pc \in {"normalize", "write", "log", "finish", "exited"} =>
         Prefixes(schemasDir) \subseteq dirs
    /\ pc = "write" /\ Len(jobs[idx].filename) = 1 => Parent(Path) \in dirs
    /\ pc = "write" /\ Parent(Path) \notin dirs => ~ENABLED WriteOk
    /\ err = "ENOENT" =>
         /\ pc = "aborted"
         /\ Len(jobs[idx].filename) > 1
         /\ Parent(Path) \notin dirs

\* C4's case: the output directory and its parent were missing when the run started,
\* and a file directly in the output directory has been written
C4_Witness ==
    /\ atStart.dirs = {<<>>}
    /\ Len(jobs[1].filename) = 1
    /\ 1 \in Done("write")
    /\ JobPath(1) \in DOMAIN files

\* the file a complete run leaves for statement i, computed from the definition alone
SerializeResult(r) == Serialize(r.h, r.v)
Document(i) ==
    SerializeResult(
      toJsonSchema(Loaded.h, DefinitionOf(jobs[i].def), jobs[i].title, jobs[i].description))

\* C5 (Idempotence): when a run has completed, each of the three files holds the
\* document its definition determines, whatever the directory held before, and the files
\* are, token for token, those the first complete run left.
C5_Idempotence ==
    pc = "exited" =>
        /\ DOMAIN files = {JobPath(i) : i \in 1..Len(jobs)}
        /\ \A i \in 1..Len(jobs) : files[JobPath(i)] = Document(i)
        /\ files = snap

\* C5's case: a second complete run over the files of a first complete run
C5_Witness ==
    /\ pc = "exited"
    /\ run = 2
    /\ snapRun = 1
    /\ DOMAIN atStart.files = {JobPath(i) : i \in 1..Len(jobs)}
    /\ Done("write") = 1..Len(jobs)

\* C6 (Partial failure): in every state the documents written in this run are the first
\* n of (settings, models, auth) and only written documents are reported; an error is
\* the last thing the run does (nothing is retried, nothing follows); after an error
\* every file from the failing document's successor on is as it was when the run
\* started, and neither the failing document nor a later one is reported.
C6_PartialFailure ==
    /\ \E n \in 0..Len(jobs) : Done("write") = 1..n
    /\ Done("log") \subseteq Done("write")
    /\ Failures \subseteq {Len(trace)}
    /\ (Failures # {}) = (pc = "aborted")
    /\ (err # "") = (pc = "aborted")
    /\ pc = "aborted" =>
         \A i \in 1..Len(jobs) :
            /\ i > trace[Len(trace)].i =>
                 /\ i \notin Done("write")
                 /\ (JobPath(i) \in DOMAIN files) = (JobPath(i) \in DOMAIN atStart.files)
                 /\ Content(files, JobPath(i)) = Content(atStart.files, JobPath(i))
            /\ i >= trace[Len(trace)].i /\ i > 0 =>
                 \A k \in 1..Len(out) : out[k].path # JobPath(i)

\* C6's case: the second write failed on a full disk after the first document was
\* written and reported, leaving a truncated second file
C6_Witness ==
    /\ pc = "aborted"
    /\ err = "ENOSPC"
    /\ trace[Len(trace)] = Ev("write-failed", 2)
    /\ Done("write") = {1}
    /\ Len(out) = 1
    /\ Len(Content(files, JobPath(2))) = MaxPartial

\* the steps of a run that nothing interrupts
Canonical ==
    <<Ev("mkdir", 0)>>
    \o Flatten(Tuple([i \in 1..Len(jobs) |->
                         <<Ev("normalize", i), Ev("write", i), Ev("log", i)>>]))
    \o <<Ev("exit", 0)>>

\* the step an event is an attempt of
Attempt(e) ==
    CASE e.op = "mkdir-failed" -> Ev("mkdir", 0)
      [] e.op = "write-failed" -> Ev("write", e.i)
      [] OTHER -> e

\* C7 (Driver ordering): what a run has done so far is an initial part of: create the
\* output directory; then for settings, for models, for auth, in that order: normalize,
\* write, report; and each reported path is the path of the document of that rank,
\* whose file exists.
C7_DriverOrdering ==
    /\ Len(trace) <= Len(Canonical)
    /\ \A k \in 1..Len(trace) : Attempt(trace[k]) = Canonical[k]
    /\ \A k \in 1..Len(out) :
         k <= Len(jobs) =>
            /\ out[k].path = JobPath(k)
            /\ JobPath(k) \in DOMAIN files
            /\ k \in Done("write")

\* C7's case: a complete run
C7_Witness ==
    /\ pc = "exited"
    /\ trace = Canonical
    /\ Len(out) = Len(jobs) + Len(Epilogue)

-----------------------------------------------------------------------------
(* Properties of the generated documents *)

\* the document statement i has just written, read back from its file
JustWrote(i) == trace # <<>> /\ trace[Len(trace)] = Ev("write", i)
ParsedTree(d) == DeepValue(d.h, d.v)
ReadBack(path) == ParsedTree(JSONparse(<<>>, files[path]))

NonEmptyString(v) == v.t = "str" /\ v.s # ""

RootFieldsOk(doc, def) ==
    /\ TreeGet(doc, "$schema") = Str("http://json-schema.org/draft-07/schema#")
    /\ NonEmptyString(TreeGet(doc, "$id"))
    /\ NonEmptyString(TreeGet(doc, "title"))
    /\ NonEmptyString(TreeGet(doc, "description"))
    /\ def \in {"SettingsSchema", "ModelsConfigSchema"} =>
         TreeGet(doc, "additionalProperties") = Bool(FALSE)
    /\ def = "AuthStorageSchema" =>
         /\ TreeGet(doc, "additionalProperties") # Bool(FALSE)
         /\ TreeGet(doc, "type") = Str("object")
         /\ \A k \in 1..Len(TreeGet(doc, "patternProperties").kids) :
              \E j \in 1..Len(TreeGet(TreeGet(doc, "patternProperties").kids[k].v, "anyOf").kids) :
                 LET alt == TreeGet(TreeGet(doc, "patternProperties").kids[k].v, "anyOf").kids[j].v
                 IN /\ TreeAt(alt, <<"properties", "type", "const">>) = Str("oauth")
                    /\ TreeGet(alt, "additionalProperties") = Bool(TRUE)

\* C8 (Root fields): every document a run writes has, at its root, $schema equal to the
\* Draft 07 URI and a $id, a title and a description; the settings and the models
\* documents have additionalProperties false at the root; the auth document has not: its
\* root is an object whose entries may have any key, and the OAuth alternative of an
\* entry has additionalProperties true.
C8_RootFields ==
    \A i \in 1..Len(jobs) : JustWrote(i) => RootFieldsOk(ReadBack(JobPath(i)), jobs[i].def)

\* C8's case: the auth document has just been written, after the two others
C8_Witness ==
    /\ JustWrote(3)
    /\ Done("write") = {1, 2, 3}
    /\ HasKey(ReadBack(JobPath(3)), "patternProperties")
    /\ HasKey(ReadBack(JobPath(2)), "additionalProperties")

IsOptionalField(obj, k, type) ==
    /\ TreeAt(obj, <<"properties", k, "type">>) = Str(type)
    /\ \A j \in 1..Len(TreeGet(obj, "required").kids) :
         TreeGet(obj, "required").kids[j].v # Str(k)

SettingsOk(doc) ==
    /\ TreeGet(doc, "additionalProperties") = Bool(FALSE)
    /\ IsOptionalField(doc, "compaction", "object")
    /\ IsOptionalField(TreeAt(doc, <<"properties", "compaction">>), "enabled", "boolean")
    /\ IsOptionalField(TreeAt(doc, <<"properties", "compaction">>), "reserveTokens", "number")
    /\ IsOptionalField(TreeAt(doc, <<"properties", "compaction">>), "keepRecentTokens", "number")
    /\ TreeGet(doc, "$id") = Str("https://buildwithpi.ai/schemas/settings.schema.json")

\* C10 (Settings end-to-end): the settings.schema.json a run writes has
\* additionalProperties false at its root, a property compaction of type object that the
\* root does not require, whose enabled is a boolean and whose reserveTokens and
\* keepRecentTokens are numbers, none of them required, and $id equal to the URI of the
\* settings definition.
C10_SettingsEndToEnd ==
    JustWrote(1) => SettingsOk(ReadBack(join(schemasDir, <<"settings.schema.json">>)))

\* C10's case: the settings document has just been written by the run
C10_Witness ==
    /\ JustWrote(1)
    /\ jobs[1].def = "SettingsSchema"
    /\ TreeAt(ReadBack(JobPath(1)), <<"properties", "compaction", "properties", "enabled", "type">>)
         = Str("boolean")

-----------------------------------------------------------------------------
(* Credential documents validated against the generated auth.schema.json,  *)
(* with the keywords of JSON Schema Draft 07 that the document uses        *)

\* a line terminator of ECMA 262 regular expressions, which `.` does not match
HasLineTerminator(s) == \E i \in 1..Len(s) : SubSeq(s, i, i) \in {"\n", "\r"}

\* the regular expression ^(.*)$ matches the keys that have no line terminator
MatchesPattern(pattern, key) == pattern = PatternStringExact /\ ~HasLineTerminator(key)

\* the keyword "type"
TypeOk(type, x) ==
    CASE type = Str("object") -> x.t = "obj"
      [] type = Str("array") -> x.t = "arr"
      [] type = Str("string") -> x.t = "str"
      [] type = Str("number") -> x.t = "num"
      [] type = Str("boolean") -> x.t = "bool"
      [] type = Str("null") -> x.t = "null"
      [] OTHER -> FALSE

\* the key of an object is one that neither "properties" nor "patternProperties" covers
IsAdditional(s, key) ==
    /\ ~HasKey(TreeGet(s, "properties"), key)
    /\ \A j \in 1..Len(TreeGet(s, "patternProperties").kids) :
         ~MatchesPattern(TreeGet(s, "patternProperties").kids[j].k, key)

\* the instance x is valid against the schema s
RECURSIVE Validate(_, _)
Validate(s, x) ==
    IF s.t = "bool" THEN s = Bool(TRUE)
    ELSE
    /\ HasKey(s, "type") => TypeOk(TreeGet(s, "type"), x)
    /\ HasKey(s, "const") => x = TreeGet(s, "const")
    /\ HasKey(s, "anyOf") =>
         \E j \in 1..Len(TreeGet(s, "anyOf").kids) : Validate(TreeGet(s, "anyOf").kids[j].v, x)
    /\ x.t = "obj" =>
         /\ \A j \in 1..Len(TreeGet(s, "required").kids) :
              HasKey(x, TreeGet(s, "required").kids[j].v.s)
         /\ \A i \in 1..Len(x.kids) :
              /\ HasKey(TreeGet(s, "properties"), x.kids[i].k) =>
                   Validate(TreeGet(TreeGet(s, "properties"), x.kids[i].k), x.kids[i].v)
              /\ \A j \in 1..Len(TreeGet(s, "patternProperties").kids) :
                   MatchesPattern(TreeGet(s, "patternProperties").kids[j].k, x.kids[i].k) =>
                      Validate(TreeGet(s, "patternProperties").kids[j].v, x.kids[i].v)
              /\ HasKey(s, "additionalProperties") /\ IsAdditional(s, x.kids[i].k) =>
                   Validate(TreeGet(s, "additionalProperties"), x.kids[i].v)

\* a field that is absent or has one of the values vs
Field(k, vs) == {<<>>} \cup {<<Prop(k, v)>> : v \in vs}

\* the entries tried: records with or without each of the fields of the two kinds of
\* credential, with values of the right and of another type, with or without a field
\* no definition names; and entries that are not records
Entries ==
    {Obj(type \o key \o access \o refresh \o expires \o accountId \o scope) :
        type \in Field("type", {Str("api_key"), Str("oauth"), Str("token")}),
        key \in Field("key", {Str("sk-1"), Num(1)}),
        access \in Field("access", {Str("at"), Num(1)}),
        refresh \in Field("refresh", {Str("rt")}),
        expires \in Field("expires", {Num(1), Str("soon")}),
        accountId \in Field("accountId", {Str("acct"), Num(7)}),
        scope \in Field("scope", {Str("all")})}
    \cup {Str("sk-1"), Null, Arr(<<>>)}

\* the profile names tried: usual, empty, and with a line break in it
ProfileNames == {"work", "", "work\nhome"}

AuthPath == join(schemasDir, <<"auth.schema.json">>)

\* after a complete run, a document {name: value} is validated against the file
ValidateAuth ==
    /\ pc = "exited"
    /\ \E s \in {ReadBack(AuthPath)} :
         \E name \in ProfileNames, value \in Entries :
            /\ entry' = [name |-> name, value |-> value]
            /\ verdict' = Validate(s, Obj(<<Prop(name, value)>>))
    /\ pc' = "validated"
    /\ UNCHANGED <<heap, normalizerVars, jobs, idx, step, fsVars, out, err, run, trace,
                   atStart, snap, snapRun>>

\* one run of the script, on nothing or over the files of an earlier tool, and then
\* the validation
InitAuth ==
    \E fs \in {[dirs |-> {<<>>}, files |-> <<>>],
               [dirs |-> Prefixes(schemasDir),
                files |-> [q \in {join(schemasDir, MainJobs[i].filename) : i \in 1..Len(MainJobs)}
                             |-> Stale]]} :
       StartOn(fs, MainJobs)

NextAuth ==
    MkdirOk \/ MkdirThrow \/ Normalize \/ WriteOk \/ WriteThrow \/ Log \/ Finish \/ ValidateAuth

SpecAuth == InitAuth /\ [][NextAuth]_vars

\* {type: "api_key", key: <string>} and nothing else
IsApiKeyRecord(e) ==
    /\ e.t = "obj"
    /\ {e.kids[i].k : i \in 1..Len(e.kids)} = {"type", "key"}
    /\ TreeGet(e, "type") = Str("api_key")
    /\ TreeGet(e, "key").t = "str"

\* {type: "oauth", access: <string>, refresh: <string>, expires: <number>, ...}
IsOAuthRecord(e) ==
    /\ e.t = "obj"
    /\ TreeGet(e, "type") = Str("oauth")
    /\ TreeGet(e, "access").t = "str"
    /\ TreeGet(e, "refresh").t = "str"
    /\ TreeGet(e, "expires").t = "num"

\* C9 as stated (Auth schema acceptance): whatever the profile name, the document is
\* accepted exactly when its entry is an api_key record with type and key and no other
\* field, or an oauth record with type, access, refresh and expires, with or without
\* other fields.
C9_AuthAcceptance ==
    pc = "validated" => verdict = (IsApiKeyRecord(entry.value) \/ IsOAuthRecord(entry.value))

\* C9 amended (Auth schema acceptance): under a profile name without a line break the
\* document is accepted exactly when its entry is an api_key record with type and a
\* string key and no other field, or an oauth record with type, string access, string
\* refresh and number expires whose accountId, when it has one, is a string (its other
\* fields are free); under a profile name with a line break every entry is accepted.
C9_AuthAcceptanceTyped ==
    pc = "validated" =>
        verdict =
            \/ HasLineTerminator(entry.name)
            \/ IsApiKeyRecord(entry.value)
            \/ /\ IsOAuthRecord(entry.value)
               /\ HasKey(entry.value, "accountId") => TreeGet(entry.value, "accountId").t = "str"

\* C9's case: an oauth record with an account and a field of its own has been accepted
\* under the name "work"
C9_Witness ==
    /\ pc = "validated"
    /\ entry.name = "work"
    /\ IsOAuthRecord(entry.value)
    /\ HasKey(entry.value, "accountId")
    /\ HasKey(entry.value, "scope")
    /\ verdict

-----------------------------------------------------------------------------
(* Structure of the document toJsonSchema returns *)

\* an internal marker: a Symbol key, or a string key that starts with "[Symbol"
IsMarker(p) == p.sym \/ StartsWith(p.k, MarkerPrefix)

\* the properties of a tree that are not markers
Unmarked(tr) == SelectSeq(tr.kids, LAMBDA p : ~IsMarker(p))

\* a tree without its marker keys, at every depth, and otherwise as it is
RECURSIVE Stripped(_)
Stripped(tr) ==
    IF IsPrimitive(tr) THEN tr
    ELSE [tr EXCEPT !.kids =
            Tuple([i \in 1..Len(Unmarked(tr)) |->
                     [Unmarked(tr)[i] EXCEPT !.v = Stripped(@)]])]

\* the properties of a tree that are not markers and whose value is not undefined; the
\* items of an array, all of them
Kept(tr) ==
    IF tr.t = "arr" THEN tr.kids
    ELSE SelectSeq(tr.kids, LAMBDA p : ~IsMarker(p) /\ p.v.t # "undef")

\* a tree without its marker keys and without the properties whose value is undefined,
\* at every depth, an undefined item of an array being null
RECURSIVE StrippedJson(_)
StrippedJson(tr) ==
    IF IsPrimitive(tr) THEN tr
    ELSE [tr EXCEPT !.kids =
            Tuple([i \in 1..Len(Kept(tr)) |->
                     [Kept(tr)[i] EXCEPT
                        !.v = IF @.t = "undef" THEN Null ELSE StrippedJson(@)]])]

\* the fields toJsonSchema sets at the root
RootFields == {"$schema", "title", "description"}

\* the properties of a root other than those fields
Rest(tr) == SelectSeq(tr.kids, LAMBDA p : p.k \notin RootFields)

\* a property of some object of the tree has the value undefined, or an item of some
\* array has
RECURSIVE HasUndefined(_)
HasUndefined(tr) ==
    /\ ~IsPrimitive(tr)
    /\ \E i \in 1..Len(tr.kids) :
         ~IsMarker(tr.kids[i]) /\ (tr.kids[i].v.t = "undef" \/ HasUndefined(tr.kids[i].v))

\* C11 as stated (Structure preservation): the returned document has $schema set to the
\* dialect URI and a title and a description at its root, and apart from these three root
\* fields it is the input without its marker keys: every other key of the input is there,
\* at the same path and with the same value, and there is no other key.
C11_StructurePreservation ==
    pc = "returned" =>
        /\ TreeGet(Returned, "$schema") = Str(Draft07)
        /\ HasKey(Returned, "title") /\ HasKey(Returned, "description")
        /\ Rest(Returned) = Rest(Stripped(before))

\* C11 amended (Structure preservation): as stated, except that, as in JSON text, a
\* property whose value is undefined is left out and an undefined item of an array is
\* null; every other key of the input is there, at the same path and with the same
\* value, and there is no other key.
C11_StructurePreservationJson ==
    pc = "returned" =>
        /\ TreeGet(Returned, "$schema") = Str(Draft07)
        /\ HasKey(Returned, "title") /\ HasKey(Returned, "description")
        /\ Rest(Returned) = Rest(StrippedJson(before))

\* C11's case: the input has marker keys at the root and in an object inside an array,
\* a null and no undefined value; the document has the object, with its null
C11_Witness ==
    /\ pc = "returned"
    /\ {<<>>, <<"anyOf", "0">>} \subseteq MarkerPaths(before)
    /\ ~HasUndefined(before)
    /\ TreeAt(Returned, <<"anyOf", "0", "properties">>) = Null
    /\ Rest(Returned) # Rest(before)

-----------------------------------------------------------------------------
(* The three generations in any order: the script with its three           *)
(* writeSchema(filename, toJsonSchema(...)) statements permuted or         *)
(* repeated, run once                                                      *)

OrderJobs == {<<a, b, c>> : a, b, c \in {MainJobs[i] : i \in 1..Len(MainJobs)}}

InitOrder == \E js \in OrderJobs : StartOn([dirs |-> {<<>>}, files |-> <<>>], js)

NextOrder == MkdirOk \/ MkdirThrow \/ Normalize \/ WriteOk \/ WriteThrow \/ Log \/ Finish

SpecOrder == InitOrder /\ [][NextOrder]_vars

DefinitionNames == {"SettingsSchema", "ModelsConfigSchema", "AuthStorageSchema"}

\* C12 (Independence of the three generations): whichever order the (normalize, write)
\* steps are run in, and whether a definition is normalized once or again, the content
\* just written for a document is the one its definition alone determines (the one a
\* normalization in a fresh process gives), and the three definitions are, at every
\* moment, what they were when the script was loaded: no normalization leaves anything
\* behind that another one reads.
C12_Independence ==
    /\ \A i \in 1..Len(jobs) : JustWrote(i) => files[JobPath(i)] = Document(i)
    /\ \A name \in DefinitionNames :
         DeepValue(heap, DefinitionOf(name)) = DeepValue(Loaded.h, DefinitionOf(name))

\* C12's case: the three documents generated in the order auth, models, settings, after
\* which the heap holds the three copies besides the definitions
C12_Witness ==
    /\ pc = "exited"
    /\ jobs = <<MainJobs[3], MainJobs[2], MainJobs[1]>>
    /\ Done("write") = {1, 2, 3}
    /\ Len(heap) > Len(Loaded.h)
    /\ \A i \in 1..3 : files[JobPath(i)] = Document(i)

====
